---- MODULE Spec2Model ----
(***************************************************************************)
(* Model of advanced/advanced-scraping-example.js: the resumable,          *)
(* rate-limited main loop that looks up football fixtures on date index     *)
(* pages, picks the best candidate by trigram similarity, loads its detail  *)
(* page and appends one CSV row per fixture to a textarea mirrored in       *)
(* localStorage.                                                            *)
(*                                                                          *)
(* Text is modelled by TLA+ strings, handled character by character with    *)
(* Len / SubSeq / \o.  JavaScript values are tagged records.                *)
(***************************************************************************)
EXTENDS Integers, Sequences, FiniteSets, TLC

(***************************************************************************)
(* Bounds of the model                                                      *)
(***************************************************************************)
MaxFixtures == 2      \* longest input list (rows of matches-to-look-up.csv)
MaxCands == 2         \* most candidates shown on an index page
MaxReloads == 1       \* most page reloads (abort + restart) in a behaviour
MaxTextLen == 2       \* longest text handed to a single writeCSV / write call
MaxArgs == 2          \* most values handed to a single writeCSV / write call
MaxPages == 2         \* most pages of the petition list
MaxItems == 2         \* most petition items on a page
MaxAborts == 1        \* most abort() calls in a behaviour

(***************************************************************************)
(* JavaScript values                                                        *)
(***************************************************************************)
Str(s) == [t |-> "string", v |-> s]
Num(n) == [t |-> "number", v |-> n]
Bool(b) == [t |-> "boolean", v |-> b]
Null == [t |-> "null"]
Undefined == [t |-> "undefined"]
NaN == [t |-> "NaN"]
\* a non-integer number, held in thousandths (0.333 is Dec(333))
Dec(th) == [t |-> "decimal", th |-> th]
\* a Date, held as the text toISOString() returns for it
Date(iso) == [t |-> "date", iso |-> iso]

(***************************************************************************)
(* Text helpers                                                             *)
(***************************************************************************)
CharAt(s, i) == SubSeq(s, i, i)

\* number of occurrences of the character c in s: (s.match(/c/g) || []).length
CountChar(s, c) == Cardinality({ i \in 1..Len(s) : CharAt(s, i) = c })

RECURSIVE ReplaceRange(_, _, _, _, _)
\* the characters lo..hi of s with every c replaced by r (a range without c
\* is taken as it is, any other is halved, so that long texts do not nest
\* deeply)
ReplaceRange(s, c, r, lo, hi) ==
  IF lo > hi THEN ""
  ELSE IF \A i \in lo..hi : CharAt(s, i) # c THEN SubSeq(s, lo, hi)
  ELSE IF lo = hi THEN r
  ELSE ReplaceRange(s, c, r, lo, (lo + hi) \div 2)
         \o ReplaceRange(s, c, r, (lo + hi) \div 2 + 1, hi)

\* s.replace(/c/g, r) for a single character c
ReplaceAll(s, c, r) == ReplaceRange(s, c, r, 1, Len(s))

\* s.indexOf(sub, from) with positions counted from 1; 0 when absent
IndexOf(s, sub, from) ==
  LET hits == { i \in from..(Len(s) - Len(sub) + 1) : SubSeq(s, i, i + Len(sub) - 1) = sub }
  IN IF hits = {} THEN 0 ELSE CHOOSE i \in hits : \A j \in hits : i <= j

\* s.replace(c, r) for a text c: the first occurrence only
ReplaceFirst(s, c, r) ==
  LET p == IndexOf(s, c, 1)
  IN IF p = 0 THEN s ELSE SubSeq(s, 1, p - 1) \o r \o SubSeq(s, p + Len(c), Len(s))

\* String.prototype.startsWith on two texts
StartsWithText(s, p) == Len(p) <= Len(s) /\ SubSeq(s, 1, Len(p)) = p

Digits == <<"0", "1", "2", "3", "4", "5", "6", "7", "8", "9">>
IsDigit(c) == \E d \in 1..10 : Digits[d] = c
DigitVal(c) == (CHOOSE d \in 1..10 : Digits[d] = c) - 1

RECURSIVE NatStr(_)
\* String(n) for a natural number n
NatStr(n) == IF n < 10 THEN Digits[n + 1] ELSE NatStr(n \div 10) \o Digits[(n % 10) + 1]

RECURSIVE StripZeros(_)
\* s without its trailing zeros
StripZeros(s) ==
  IF Len(s) > 0 /\ CharAt(s, Len(s)) = "0" THEN StripZeros(SubSeq(s, 1, Len(s) - 1)) ELSE s

\* String(x) for a number x >= 0 given in thousandths: "0.2", "0.333", "1"
DecStr(th) ==
  LET f == th % 1000
      f3 == (IF f < 10 THEN "00" ELSE IF f < 100 THEN "0" ELSE "") \o NatStr(f)
  IN NatStr(th \div 1000) \o (IF f = 0 THEN "" ELSE "." \o StripZeros(f3))

IsSpace(c) == c \in {" ", "\n", "\t", "\r"}

RECURSIVE FirstNonSpace(_, _)
\* position of the first character at or after i that is not white space
FirstNonSpace(s, i) ==
  IF i <= Len(s) /\ IsSpace(CharAt(s, i)) THEN FirstNonSpace(s, i + 1) ELSE i

RECURSIVE LastNonSpace(_, _)
\* position of the last character at or before i that is not white space
LastNonSpace(s, i) ==
  IF i >= 1 /\ IsSpace(CharAt(s, i)) THEN LastNonSpace(s, i - 1) ELSE i

\* String.prototype.trim
Trim(s) == SubSeq(s, FirstNonSpace(s, 1), LastNonSpace(s, Len(s)))

RECURSIVE DigitsEnd(_, _)
\* position after the run of decimal digits that starts at i
DigitsEnd(s, i) ==
  IF i <= Len(s) /\ IsDigit(CharAt(s, i)) THEN DigitsEnd(s, i + 1) ELSE i

RECURSIVE DigitsVal(_, _, _)
\* value of the decimal digits s[from..to]
DigitsVal(s, from, to) ==
  IF to < from THEN 0
  ELSE 10 * DigitsVal(s, from, to - 1) + DigitVal(CharAt(s, to))

\* parseInt(v): leading white space is skipped, then the leading decimal
\* digits are read; NaN when there are none (also for undefined)
ParseInt(v) ==
  IF v.t # "string" THEN NaN
  ELSE LET from == FirstNonSpace(v.v, 1)
           end == DigitsEnd(v.v, from)
       IN IF end = from THEN NaN ELSE Num(DigitsVal(v.v, from, end - 1))

\* template-literal / String() conversion of a value to text
ToText(v) ==
  CASE v.t = "string" -> v.v
    [] v.t = "number" -> NatStr(v.v)
    [] v.t = "boolean" -> (IF v.v THEN "true" ELSE "false")
    [] v.t = "null" -> "null"
    [] v.t = "undefined" -> "undefined"
    [] v.t = "NaN" -> "NaN"
    [] v.t = "decimal" -> DecStr(v.th)

RECURSIVE Join(_, _)
\* Array.prototype.join
Join(seq, sep) ==
  IF Len(seq) = 0 THEN ""
  ELSE IF Len(seq) = 1 THEN seq[1]
  ELSE seq[1] \o sep \o Join(Tail(seq), sep)


(***************************************************************************)
(* Trigram similarity (trigrams.js, loaded at run time)                     *)
(***************************************************************************)
UpperChars == "ABCDEFGHIJKLMNOPQRSTUVWXYZ"
LowerChars == "abcdefghijklmnopqrstuvwxyz"

\* the lower-case letter of each upper-case letter
LowerOf ==
  [c \in { CharAt(UpperChars, i) : i \in 1..26 } |->
     CharAt(LowerChars, CHOOSE i \in 1..26 : CharAt(UpperChars, i) = c)]

\* the upper-case letters
UpperLetters == DOMAIN LowerOf

LowerChar(c) == IF c \in UpperLetters THEN LowerOf[c] ELSE c

RECURSIVE NormalizeRange(_, _, _)
\* the characters lo..hi of s, case-folded, a space that follows a space
\* dropped (a range that holds neither is taken as it is, any other is
\* halved, so that long texts do not nest deeply)
NormalizeRange(s, lo, hi) ==
  IF lo > hi THEN ""
  ELSE IF \A i \in lo..hi :
            /\ CharAt(s, i) \notin UpperLetters
            /\ ~(CharAt(s, i) = " " /\ i > 1 /\ CharAt(s, i - 1) = " ")
       THEN SubSeq(s, lo, hi)
  ELSE IF lo = hi
       THEN (IF lo > 1 /\ CharAt(s, lo) = " " /\ CharAt(s, lo - 1) = " " THEN ""
             ELSE LowerChar(CharAt(s, lo)))
       ELSE NormalizeRange(s, lo, (lo + hi) \div 2)
              \o NormalizeRange(s, (lo + hi) \div 2 + 1, hi)

\* case-fold and collapse runs of spaces
NormalizeText(s) == NormalizeRange(s, 1, Len(s))

\* new Trigrams(text): the length-3 substrings of the normalized text
Trigrams(text) ==
  LET n == NormalizeText(text)
  IN { SubSeq(n, i, i + 2) : i \in 1..(Len(n) - 2) }

\* a.matchQualityWith(b), in ten-thousandths: shared trigrams over all trigrams
matchQualityWith(a, b) ==
  IF a \cup b = {} THEN 0
  ELSE (Cardinality(a \cap b) * 10000) \div Cardinality(a \cup b)

\* x.toFixed(3) of a quality in ten-thousandths, as thousandths (round half up)
ToFixed3(q) == (q + 5) \div 10

(***************************************************************************)
(* Job-specific helpers                                                     *)
(***************************************************************************)
leagueMap ==
  ( "E0" :> "england/premier-league" ) @@
  ( "E1" :> "england/championship" ) @@
  ( "E2" :> "england/league-one" ) @@
  ( "E3" :> "england/league-two" ) @@
  ( "EC" :> "england/conference" ) @@
  ( "SC0" :> "scotland/premier-league" ) @@
  ( "SC1" :> "scotland/first-division" ) @@
  ( "SC2" :> "scotland/second-division" ) @@
  ( "SC3" :> "scotland/third-division" )

\* leagueMap[key]: the mapped path, or undefined for a key that is not in the
\* table (the key is converted to text as a property name is)
LeagueMapGet(key) ==
  IF ToText(key) \in DOMAIN leagueMap THEN Str(leagueMap[ToText(key)]) ELSE Undefined

\* pageMatch.div.startsWith(x): the argument is converted to text first, so an
\* undefined argument is the text "undefined"
StartsWith(s, x) == StartsWithText(s, ToText(x))

\* the date index page of a fixture
DateURL(sourceMatch) ==
  "https://uk.soccerway.com/matches/" \o ReplaceAll(sourceMatch.matchdate.v, "-", "/") \o "/"

\* the text a page score must equal
ScoreText(sourceMatch) ==
  ToText(sourceMatch.homegoals) \o " - " \o ToText(sourceMatch.awaygoals)

\* mutant of PassesFilter: the score condition is lost
PassesFilter_DivOnly(sourceMatch, pageMatch) ==
  StartsWith(pageMatch.div, LeagueMapGet(sourceMatch.div))

\* the predicate of pageMatches.filter(...)
PassesFilter(sourceMatch, pageMatch) ==
  /\ pageMatch.score = ScoreText(sourceMatch)
  /\ StartsWith(pageMatch.div, LeagueMapGet(sourceMatch.div))

RECURSIVE FilterMatches(_, _)
FilterMatches(sourceMatch, pageMatches) ==
  IF Len(pageMatches) = 0 THEN << >>
  ELSE (IF PassesFilter(sourceMatch, Head(pageMatches)) THEN <<Head(pageMatches)>> ELSE << >>)
         \o FilterMatches(sourceMatch, Tail(pageMatches))

JoinedNames(home, away) == ToText(home) \o "  " \o ToText(away)

\* mutant of Better: >= for >
Better_OrEqual(matchQuality, bestMatchQuality) == matchQuality >= bestMatchQuality

\* the test of the forEach body that decides whether a candidate replaces the
\* best one so far
Better(matchQuality, bestMatchQuality) == matchQuality > bestMatchQuality

RECURSIVE PickBest(_, _, _)
\* the forEach over matchingPageMatches, carrying bestMatch / bestMatchQuality
PickBest(sourceTrigrams, matches, best) ==
  IF Len(matches) = 0 THEN best
  ELSE LET match == Head(matches)
           matchQuality == matchQualityWith(
                             Trigrams(JoinedNames(Str(match.home), Str(match.away))),
                             sourceTrigrams)
       IN PickBest(sourceTrigrams, Tail(matches),
                   IF Better(matchQuality, best.quality)
                   THEN [match |-> match, quality |-> matchQuality]
                   ELSE best)

NoMatch == [match |-> Null, quality |-> 0]

\* lines 182-199: filter by score and league, then pick the best trigram match
BestMatch(sourceMatch, pageMatches) ==
  PickBest(Trigrams(JoinedNames(sourceMatch.hometeam, sourceMatch.awayteam)),
           FilterMatches(sourceMatch, pageMatches), NoMatch)

(***************************************************************************)
(* writeCSV                                                                 *)
(***************************************************************************)
\* typeof value
TypeOf(value) ==
  CASE value.t \in {"number", "NaN", "decimal"} -> "number"
    [] value.t \in {"null", "date"} -> "object"
    [] OTHER -> value.t

\* mutant of Column: only undefined is caught by the first test
Column_NullAsText(value) ==
  IF value.t = "undefined" THEN ""
  ELSE IF TypeOf(value) = "number" THEN ToText(value)
  ELSE IF TypeOf(value) = "boolean" THEN (IF value.v THEN "1" ELSE "0")
  ELSE IF value.t = "date" THEN ReplaceFirst(ReplaceFirst(value.iso, "T", " "), "Z", "")
  ELSE "\"" \o ReplaceAll(ToText(value), "\"", "\"\"") \o "\""

\* mutant of Column: quotes inside a text are not doubled
Column_NoDoubling(value) ==
  IF value.t \in {"null", "undefined"} THEN ""
  ELSE IF TypeOf(value) = "number" THEN ToText(value)
  ELSE IF TypeOf(value) = "boolean" THEN (IF value.v THEN "1" ELSE "0")
  ELSE IF value.t = "date" THEN ReplaceFirst(ReplaceFirst(value.iso, "T", " "), "Z", "")
  ELSE "\"" \o ToText(value) \o "\""

\* one column of a row (lines 71-78)
Column(value) ==
  IF value.t \in {"null", "undefined"} THEN ""
  ELSE IF TypeOf(value) = "number" THEN ToText(value)
  ELSE IF TypeOf(value) = "boolean" THEN (IF value.v THEN "1" ELSE "0")
  ELSE IF value.t = "date" THEN ReplaceFirst(ReplaceFirst(value.iso, "T", " "), "Z", "")
  ELSE "\"" \o ReplaceAll(ToText(value), "\"", "\"\"") \o "\""

\* the text writeCSV(...values) appends
RowText(values) ==
  Join([i \in 1..Len(values) |-> Column(values[i])], ",") \o "\n"

(***************************************************************************)
(* write of scraping-example-v2.js                                          *)
(***************************************************************************)
\* one column of a row: the tests are made on typeof value, and typeof null
\* is 'object'
SimpleColumn(value) ==
  IF TypeOf(value) \in {"null", "undefined"} THEN ""
  ELSE IF TypeOf(value) = "number" THEN ToText(value)
  ELSE IF TypeOf(value) = "boolean" THEN (IF value.v THEN "1" ELSE "0")
  ELSE IF value.t = "date" THEN ReplaceFirst(ReplaceFirst(value.iso, "T", " "), "Z", "")
  ELSE "\"" \o ReplaceAll(ToText(value), "\"", "\"\"") \o "\""

\* the text write(...values) appends
SimpleRowText(values) ==
  Join([i \in 1..Len(values) |-> SimpleColumn(values[i])], ",") \o "\n"

(***************************************************************************)
(* Inputs: the fixture list and what the site shows                         *)
(***************************************************************************)
Fixture(div, matchdate, hometeam, awayteam, homegoals, awaygoals) ==
  [div |-> div, matchdate |-> matchdate, hometeam |-> hometeam,
   awayteam |-> awayteam, homegoals |-> homegoals, awaygoals |-> awaygoals]

FixTown == Fixture(Str("E0"), Str("2018-01-01"), Str("Town FC"), Str("City FC"), Str("2"), Str("1"))
FixBath == Fixture(Str("EC"), Str("2018-01-01"), Str("Bath"), Str("Hull"), Str("2"), Str("1"))
FixCup == Fixture(Str("XX"), Str("2018-01-02"), Str("Town FC"), Str("City FC"), Str("2"), Str("1"))
\* what loadSimpleCSV makes of an empty line (the one after a final newline):
\* the first header maps to '', every other header to undefined
FixBlank == Fixture(Str(""), Undefined, Undefined, Undefined, Undefined, Undefined)

FixturePool == {FixTown, FixBath, FixCup, FixBlank}

\* the characters of a very long team name, in three groups
GroupA == "012345678"
GroupB == "abcdefghi"
GroupC == "jklmnopqr"

\* the n-th block, counting from 0: one character of each group, so that the
\* trigrams of consecutive blocks all differ and all hold a digit
Block(n) ==
  CharAt(GroupA, n \div (Len(GroupB) * Len(GroupC)) + 1)
    \o CharAt(GroupB, ((n \div Len(GroupC)) % Len(GroupB)) + 1)
    \o CharAt(GroupC, (n % Len(GroupC)) + 1)

RECURSIVE Blocks(_, _)
\* the blocks lo..hi, one after the other
Blocks(lo, hi) ==
  IF lo = hi THEN Block(lo)
  ELSE Blocks(lo, (lo + hi) \div 2) \o Blocks((lo + hi) \div 2 + 1, hi)

\* a home team whose name starts like "Town" and goes on through every block:
\* a name of more than two thousand characters and as many trigrams, one of
\* which ("tow") is a trigram of the names of RowTown
LongName == "tow" \o Blocks(0, Len(GroupA) * Len(GroupB) * Len(GroupC) - 1)

FixLong == Fixture(Str("E0"), Str("2018-01-01"), Str(LongName), Str("j"), Str("2"), Str("1"))

\* the fixtures of a list that has such a name in it
LongPool == {FixLong, FixTown}

\* a row of the index page's table: team titles, text of the score link (null
\* when the row has no score link) and the href of the info button
PageRow(home, away, scoreLink, href) ==
  [home |-> home, away |-> away, scoreLink |-> scoreLink, href |-> href]

MatchesPath == "https://uk.soccerway.com/matches/2018/01/01/"

RowOther == PageRow("Zzz", "Qqq", Str("2 - 1"), MatchesPath \o "england/premier-league/zzz/qqq/3/")
RowTown == PageRow("Town F.C.", "City F.C.", Str("2 - 1"), MatchesPath \o "england/premier-league/town/city/1/")
RowTwin == PageRow("Town F.C.", "City F.C.", Str("2 - 1"), MatchesPath \o "england/premier-league/town/city/2/")
RowDraw == PageRow("Town FC", "City FC", Str("1 - 1"), MatchesPath \o "england/premier-league/town/city/4/")
RowConf == PageRow("Bath City", "Hull", Str("2 - 1"), MatchesPath \o "england/conference-north/bath/hull/5/")
RowUndef == PageRow("Town FC", "City FC", Str("2 - 1"), MatchesPath \o "undefined/cup/town/city/6/")

\* the rows a page can show, in the order the page shows them
RowPool == << RowOther, RowTown, RowTwin, RowDraw, RowConf, RowUndef >>

RECURSIVE PickRows(_, _)
\* the rows of RowPool at the positions in idxs, in page order
PickRows(idxs, from) ==
  IF from > Len(RowPool) THEN << >>
  ELSE (IF from \in idxs THEN <<RowPool[from]>> ELSE << >>) \o PickRows(idxs, from + 1)

Listings ==
  { PickRows(idxs, 1) : idxs \in { S \in SUBSET (1..Len(RowPool)) : Cardinality(S) <= MaxCands } }

\* a goal row of a detail page: text of the score cell, text of the minute
\* element on the home side and on the away side (null when absent)
GoalRow(score, homeMin, awayMin) == [score |-> score, homeMin |-> homeMin, awayMin |-> awayMin]

\* a detail page: text of the kick-off element (null when the page has none),
\* rows of 'table.matches.events tr', items of 'ul.scorer-info li'
DetailPage(ko, events, scorers) == [ko |-> ko, events |-> events, scorers |-> scorers]

DetailOf(url) ==
  CASE url = RowTown.href ->
         DetailPage(Str(" 15:00 "),
                    << GoalRow("1-0", Str("10'"), Null), GoalRow("1-1", Null, Str("55'")),
                       GoalRow("2-1", Str("80'"), Null) >>,
                    << GoalRow("0 - 1", Null, Str("3'")) >>)
    [] url = RowTwin.href ->
         DetailPage(Str("15:00"), << >>,
                    << GoalRow("\n1 - 0\n", Str("7'"), Null), GoalRow("2 - 0", Str("30'"), Null),
                       GoalRow("2 - 1", Null, Str("90'+2")) >>)
    [] url = RowConf.href -> DetailPage(Str("12:30"), << >>, << >>)
    [] OTHER -> DetailPage(Null, << >>, << >>)

(***************************************************************************)
(* Page parser                                                              *)
(***************************************************************************)
\* URL.match(/\/matches\/\d{4}\/\d{2}\/\d{2}\/(.+?\/.+?)\//)[1]: the two path
\* segments after the date (dates are taken to be well formed)
DivOfURL(url) ==
  LET m == IndexOf(url, "/matches/", 1)
      start == m + Len("/matches/0000/00/00/")
      s1 == IndexOf(url, "/", start + 1)
      s2 == IndexOf(url, "/", s1 + 2)
  IN SubSeq(url, start, s2 - 1)

\* getMatches(): one candidate per row of the index page
getMatches(rows) ==
  [k \in 1..Len(rows) |->
     [home |-> rows[k].home,
      score |-> IF rows[k].scoreLink.t = "null" THEN "999 - 999" ELSE rows[k].scoreLink.v,
      away |-> rows[k].away,
      URL |-> rows[k].href,
      div |-> DivOfURL(rows[k].href)]]

\* a goal row whose minute element is missing on both sides makes the map
\* callback read .textContent of null
GoalRowThrows(row) == row.homeMin.t = "null" /\ row.awayMin.t = "null"

\* the map callback of lines 220-227 and 230-237
GoalOf(row) ==
  [minute |-> ParseInt(IF row.homeMin.t # "null" THEN row.homeMin ELSE row.awayMin),
   team |-> IF row.homeMin.t # "null" THEN "home" ELSE "away",
   score |-> row.score]

\* mutant of UseScorers: the second layout is read whatever the first gave
UseScorers_Always(events) == TRUE

\* which layout the goals are read from
UseScorers(events) == Len(events) = 0

\* lines 218-237: goal events, first layout then the other
ExtractGoals(page) ==
  LET rows == IF UseScorers(page.events) THEN page.scorers ELSE page.events
  IN [k \in 1..Len(rows) |-> GoalOf(rows[k])]

ExtractThrows(page) ==
  \/ page.ko.t = "null"
  \/ \E k \in 1..Len(page.events) : GoalRowThrows(page.events[k])
  \/ /\ UseScorers(page.events)
     /\ \E k \in 1..Len(page.scorers) : GoalRowThrows(page.scorers[k])

\* mutant of GoalsText: the goals are joined by a comma
GoalsText_Comma(goals) ==
  Join([k \in 1..Len(goals) |->
          ToText(goals[k].minute) \o " : " \o goals[k].team \o " : " \o goals[k].score],
       ", ")

\* line 249: the goal column
GoalsText(goals) ==
  Join([k \in 1..Len(goals) |->
          ToText(goals[k].minute) \o " : " \o goals[k].team \o " : " \o goals[k].score],
       " / ")

\* mutant of RowValues: without a match the fixture's own names are written
RowValues_OwnNames(sourceMatch, best, kickOffV, goalsV) ==
  << sourceMatch.div, sourceMatch.matchdate, sourceMatch.hometeam, sourceMatch.awayteam,
     ParseInt(sourceMatch.homegoals), ParseInt(sourceMatch.awaygoals),
     kickOffV,
     Str(GoalsText(goalsV)),
     Dec(ToFixed3(best.quality)),
     IF best.match # Null THEN Str(best.match.home) ELSE sourceMatch.hometeam,
     IF best.match # Null THEN Str(best.match.away) ELSE sourceMatch.awayteam >>

\* the arguments of the writeCSV call of lines 241-253
RowValues(sourceMatch, best, kickOffV, goalsV) ==
  << sourceMatch.div, sourceMatch.matchdate, sourceMatch.hometeam, sourceMatch.awayteam,
     ParseInt(sourceMatch.homegoals), ParseInt(sourceMatch.awaygoals),
     kickOffV,
     Str(GoalsText(goalsV)),
     Dec(ToFixed3(best.quality)),
     IF best.match # Null THEN Str(best.match.home) ELSE Null,
     IF best.match # Null THEN Str(best.match.away) ELSE Null >>

(***************************************************************************)
(* State                                                                    *)
(***************************************************************************)
VARIABLES
  csv,              \* the fixtures, as loadSimpleCSV returned them
  listing,          \* the rows the site shows on a date index page
  localStorageCsv,  \* localStorage item 'csv'
  textareaValue,    \* textarea.value
  pc,               \* the await the main loop is suspended at
  csvIndex,         \* loop variable of the main loop
  bestMatch,        \* var bestMatch (null or a candidate)
  bestMatchQuality, \* var bestMatchQuality, in ten-thousandths
  kickOff,          \* var kickOff
  goals,            \* var goals
  indexFrame,       \* index iframe: current location and navigation under way
  matchFrame,       \* detail iframe: current location and navigation under way
  indexListeners,   \* number of 'load' listeners registered on the index iframe
  matchListeners,   \* number of 'load' listeners registered on the detail iframe
  timerPending,     \* a setTimeout of sleep() is pending
  observing,        \* the MutationObserver of clickUK is connected
  children,         \* child nodes of the watched element of the index page
  reloads,          \* page reloads so far
  trace,            \* history: events of the current run, in order
  resolved,         \* history: how often the current clickUK promise resolved
  processed,        \* history: fixtures whose writeCSV call has been made
  logAtIterStart,   \* history: textarea.value when the iteration began
  frameAtIterStart, \* history: the detail iframe when the iteration began
  args,             \* the values of a writeCSV / write call studied on its own
  site,             \* simple example: the pages of the petition list
  iframe,           \* simple example: page shown in the iframe, navigation under way
  processListener,  \* simple example: process is registered as 'load' listener
  clickTimeout,     \* simple example: the global clickTimeout (undefined until assigned)
  pendingTimers,    \* simple example: ids of the setTimeout timers still pending
  aborts            \* simple example: abort() calls so far

vars == << csv, listing, localStorageCsv, textareaValue, pc, csvIndex, bestMatch,
           bestMatchQuality, kickOff, goals, indexFrame, matchFrame, indexListeners,
           matchListeners, timerPending, observing, children, reloads, trace, resolved,
           processed, logAtIterStart, frameAtIterStart, args, site, iframe,
           processListener, clickTimeout, pendingTimers, aborts >>

inputVars == << csv, listing >>
\* the state of scraping-example-v2.js
simpleVars == << site, iframe, processListener, clickTimeout, pendingTimers, aborts >>
\* what the main loop never touches
fixedVars == << inputVars, args, simpleVars >>
logVars == << localStorageCsv, textareaValue >>
matchVars == << bestMatch, bestMatchQuality, kickOff, goals >>
detailVars == << matchFrame, matchListeners >>
observerVars == << observing, children, resolved >>

AboutBlank == "about:blank"

\* scraping-example-v2.js has not been started
SimpleIdle ==
  /\ site = << >>
  /\ iframe = [page |-> 0, pending |-> 0]
  /\ processListener = FALSE
  /\ clickTimeout = Undefined
  /\ pendingTimers = {}
  /\ aborts = 0
BlankFrame == [href |-> AboutBlank, pending |-> Null]

Event(e, i) == [e |-> e, i |-> i]

AwaitPoints ==
  {"boot", "awaitIndexLoad", "awaitIndexSleep", "awaitUK", "awaitDetailSleep",
   "awaitDetailLoad", "awaitEndSleep"}

RECURSIVE SeqsUpTo(_, _)
\* the sequences of distinct elements of S of length at most n
SeqsUpTo(S, n) ==
  IF n = 0 THEN { << >> }
  ELSE LET shorter == SeqsUpTo(S, n - 1)
       IN shorter \cup { Append(qx[1], qx[2]) :
                          qx \in { p \in shorter \X S : \A k \in 1..Len(p[1]) : p[1][k] # p[2] } }

\* the state of the page and of the script before its first step, whatever the
\* fixture list and the site are
FreshPage ==
  /\ localStorageCsv = ""
  /\ textareaValue = ""
  /\ pc = "boot"
  /\ csvIndex = 0
  /\ bestMatch = Null
  /\ bestMatchQuality = 0
  /\ kickOff = Null
  /\ goals = << >>
  /\ indexFrame = BlankFrame
  /\ matchFrame = BlankFrame
  /\ indexListeners = 0
  /\ matchListeners = 0
  /\ timerPending = FALSE
  /\ observing = FALSE
  /\ children = {}
  /\ reloads = 0
  /\ trace = << >>
  /\ resolved = 0
  /\ processed = 0
  /\ logAtIterStart = ""
  /\ frameAtIterStart = BlankFrame
  /\ args = << >>
  /\ SimpleIdle

\* the state after the script was pasted into the console of a fresh page
Init ==
  /\ csv \in SeqsUpTo(FixturePool, MaxFixtures)
  /\ listing \in Listings
  /\ FreshPage

(***************************************************************************)
(* Pieces of the main loop that run between two awaits                      *)
(***************************************************************************)
\* writeCSV: the new textarea.value
WriteCSV(text, values) == text \o RowText(values)

\* the resume offset of line 166-167
ResumeOffset(text) == CountChar(text, "\n")

\* mutant of NeedsLoad: the index page is loaded for every fixture
NeedsLoad_Always(href, dateURL) == TRUE

\* whether the index page must be loaded (line 175)
NeedsLoad(href, dateURL) == href # dateURL

\* mutant of HasMatch: weak matches are not followed up
HasMatch_Confident(best) == best.match # Null /\ best.quality > 5000

\* whether the detail page is fetched (line 205)
HasMatch(best) == best.match # Null

\* mutant of WriteAndSleep: a row is written for matched fixtures only
WriteAndSleep_OnlyMatched(i, tr, best, kickOffV, goalsV) ==
  /\ textareaValue' = IF best.match = Null THEN textareaValue
                      ELSE WriteCSV(textareaValue, RowValues(csv[i + 1], best, kickOffV, goalsV))
  /\ localStorageCsv' = IF best.match = Null THEN localStorageCsv ELSE textareaValue'
  /\ processed' = IF best.match = Null THEN processed ELSE processed + 1
  /\ timerPending' = TRUE
  /\ pc' = "awaitEndSleep"
  /\ trace' = IF best.match = Null THEN tr ELSE tr \o << Event("write", i) >>

\* mutant of WriteAndSleep: the row reaches the textarea only, line 83 is lost
WriteAndSleep_NoSave(i, tr, best, kickOffV, goalsV) ==
  /\ textareaValue' = WriteCSV(textareaValue, RowValues(csv[i + 1], best, kickOffV, goalsV))
  /\ localStorageCsv' = localStorageCsv
  /\ processed' = processed + 1
  /\ timerPending' = TRUE
  /\ pc' = "awaitEndSleep"
  /\ trace' = tr \o << Event("write", i) >>

\* lines 240-255: write the row of fixture i and start the closing sleep
WriteAndSleep(i, tr, best, kickOffV, goalsV) ==
  /\ textareaValue' = WriteCSV(textareaValue, RowValues(csv[i + 1], best, kickOffV, goalsV))
  /\ localStorageCsv' = textareaValue'
  /\ processed' = processed + 1
  /\ timerPending' = TRUE
  /\ pc' = "awaitEndSleep"
  /\ trace' = tr \o << Event("write", i) >>

\* mutant of MatchSegment: the detail page is requested without the sleep of
\* line 208
MatchSegment_NoSleep(i, tr) ==
  \E best \in { BestMatch(csv[i + 1], getMatches(listing)) } :
     /\ bestMatch' = best.match
     /\ bestMatchQuality' = best.quality
     /\ kickOff' = Null
     /\ goals' = << >>
     /\ IF HasMatch(best)
        THEN /\ timerPending' = FALSE
             /\ matchFrame' = [matchFrame EXCEPT !.pending = Str(best.match.URL)]
             /\ matchListeners' = matchListeners + 1
             /\ pc' = "awaitDetailLoad"
             /\ trace' = tr \o << Event("navDetail", i) >>
             /\ UNCHANGED << logVars, processed >>
        ELSE /\ WriteAndSleep(i, tr, best, Null, << >>)
             /\ UNCHANGED detailVars

\* lines 181-208 (and on to 255 without a match): from getMatches() to the
\* next await, for fixture i
MatchSegment(i, tr) ==
  \E best \in { BestMatch(csv[i + 1], getMatches(listing)) } :
     /\ bestMatch' = best.match
     /\ bestMatchQuality' = best.quality
     /\ kickOff' = Null
     /\ goals' = << >>
     /\ UNCHANGED detailVars
     /\ IF HasMatch(best)
        THEN /\ timerPending' = TRUE
             /\ pc' = "awaitDetailSleep"
             /\ trace' = tr
             /\ UNCHANGED << logVars, processed >>
        ELSE WriteAndSleep(i, tr, best, Null, << >>)

\* lines 167-179: the loop test with csvIndex = i and the body up to its first
\* await
LoopHead(i, tr) ==
  /\ csvIndex' = i
  /\ logAtIterStart' = textareaValue
  /\ frameAtIterStart' = matchFrame
  /\ IF i >= Len(csv)
     THEN /\ pc' = "done"
          /\ timerPending' = FALSE
          /\ trace' = tr
          /\ UNCHANGED << logVars, matchVars, detailVars, indexFrame, indexListeners,
                          processed >>
     ELSE IF csv[i + 1].matchdate.t = "undefined"
     THEN \* sourceMatch.matchdate.replace is a TypeError
          /\ pc' = "threw"
          /\ timerPending' = FALSE
          /\ trace' = tr
          /\ UNCHANGED << logVars, matchVars, detailVars, indexFrame, indexListeners,
                          processed >>
     ELSE IF NeedsLoad(indexFrame.href, DateURL(csv[i + 1]))
     THEN \* openURLInFrame(dateURL, indexFrame)
          /\ pc' = "awaitIndexLoad"
          /\ timerPending' = FALSE
          /\ indexFrame' = [indexFrame EXCEPT !.pending = Str(DateURL(csv[i + 1]))]
          /\ indexListeners' = indexListeners + 1
          /\ trace' = tr \o << Event("navIndex", i) >>
          /\ UNCHANGED << logVars, matchVars, detailVars, processed >>
     ELSE /\ MatchSegment(i, tr)
          /\ UNCHANGED << indexFrame, indexListeners >>

(***************************************************************************)
(* Actions: one per event that resumes the main loop                        *)
(***************************************************************************)
\* trigrams.js and the fixture list have arrived: lines 166-167 and on
Boot ==
  /\ pc = "boot"
  /\ LoopHead(ResumeOffset(textareaValue), trace)
  /\ UNCHANGED << fixedVars, observerVars, reloads >>

\* mutant of IndexLoaded: the candidates are read as soon as the page has
\* loaded, without the sleep and without clickUK
IndexLoaded_NoReveal ==
  /\ pc = "awaitIndexLoad"
  /\ indexFrame' = [href |-> indexFrame.pending.v, pending |-> Null]
  /\ indexListeners' = 0
  /\ children' = {"content"}
  /\ MatchSegment(csvIndex, trace \o << Event("loaded", csvIndex) >>)
  /\ UNCHANGED << fixedVars, csvIndex, observing, reloads, resolved, logAtIterStart,
                  frameAtIterStart >>

\* mutant of IndexLoaded: the 'load' listener stays registered
IndexLoaded_KeepListener ==
  /\ pc = "awaitIndexLoad"
  /\ indexFrame' = [href |-> indexFrame.pending.v, pending |-> Null]
  /\ indexListeners' = indexListeners
  /\ children' = {"content"}
  /\ timerPending' = TRUE
  /\ pc' = "awaitIndexSleep"
  /\ trace' = trace \o << Event("loaded", csvIndex) >>
  /\ UNCHANGED << fixedVars, logVars, csvIndex, matchVars, detailVars, observing, reloads,
                  resolved, processed, logAtIterStart, frameAtIterStart >>

\* 'load' fires on the index iframe: line 176 resumes, line 177 sleeps
IndexLoaded ==
  /\ pc = "awaitIndexLoad"
  /\ indexFrame' = [href |-> indexFrame.pending.v, pending |-> Null]
  /\ indexListeners' = 0
  /\ children' = {"content"}
  /\ timerPending' = TRUE
  /\ pc' = "awaitIndexSleep"
  /\ trace' = trace \o << Event("loaded", csvIndex) >>
  /\ UNCHANGED << fixedVars, logVars, csvIndex, matchVars, detailVars, observing, reloads,
                  resolved, processed, logAtIterStart, frameAtIterStart >>

\* the timer of line 177 fires: clickUK() connects the observer and clicks
IndexSleepDone ==
  /\ pc = "awaitIndexSleep"
  /\ timerPending
  /\ timerPending' = FALSE
  /\ observing' = TRUE
  /\ resolved' = 0
  /\ pc' = "awaitUK"
  /\ trace' = trace \o << Event("delay", csvIndex), Event("clickUK", csvIndex) >>
  /\ UNCHANGED << fixedVars, logVars, csvIndex, matchVars, indexFrame, indexListeners,
                  detailVars, children, reloads, processed, logAtIterStart,
                  frameAtIterStart >>

Nodes == {"content", "overlay"}

\* mutant of RemovedOverlay: any batch of mutations counts
RemovedOverlay_AnyBatch(removed) == TRUE

\* what the observer callback computes from a batch (line 131)
RemovedOverlay(removed) == removed # {}

\* after the click the index page changes the child list of the watched
\* element: one batch of mutation records, delivered to the observer if it is
\* connected
Mutate(added, removed) ==
  /\ pc = "awaitUK"
  /\ added \cup removed # {}
  /\ removed \subseteq children
  /\ added \subseteq Nodes \ children
  /\ children' = (children \ removed) \cup added
  /\ IF observing /\ RemovedOverlay(removed)
     THEN \* observer.disconnect(); resolve(): line 178 resumes
          /\ observing' = FALSE
          /\ resolved' = resolved + 1
          /\ MatchSegment(csvIndex, trace \o << Event("refreshed", csvIndex) >>)
          /\ UNCHANGED << fixedVars, csvIndex, indexFrame, indexListeners, reloads,
                          logAtIterStart, frameAtIterStart >>
     ELSE UNCHANGED << fixedVars, logVars, pc, csvIndex, matchVars, indexFrame,
                       indexListeners, detailVars, timerPending, observing, reloads, trace,
                       resolved, processed, logAtIterStart, frameAtIterStart >>

\* the timer of line 208 fires: openURLInFrame(bestMatch.URL, matchFrame)
DetailSleepDone ==
  /\ pc = "awaitDetailSleep"
  /\ timerPending
  /\ timerPending' = FALSE
  /\ matchFrame' = [matchFrame EXCEPT !.pending = Str(bestMatch.URL)]
  /\ matchListeners' = matchListeners + 1
  /\ pc' = "awaitDetailLoad"
  /\ trace' = trace \o << Event("delay", csvIndex), Event("navDetail", csvIndex) >>
  /\ UNCHANGED << fixedVars, logVars, csvIndex, matchVars, indexFrame, indexListeners,
                  observerVars, reloads, processed, logAtIterStart, frameAtIterStart >>

\* 'load' fires on the detail iframe: lines 211-255
DetailLoaded ==
  /\ pc = "awaitDetailLoad"
  /\ matchFrame' = [href |-> matchFrame.pending.v, pending |-> Null]
  /\ matchListeners' = 0
  /\ LET page == DetailOf(matchFrame.pending.v)
         tr == trace \o << Event("loaded", csvIndex) >>
     IN IF ExtractThrows(page)
        THEN /\ pc' = "threw"
             /\ trace' = tr
             /\ kickOff' = IF page.ko.t = "null" THEN Null ELSE Str(Trim(page.ko.v))
             /\ UNCHANGED << logVars, goals, timerPending, processed >>
        ELSE /\ kickOff' = Str(Trim(page.ko.v))
             /\ goals' = ExtractGoals(page)
             /\ WriteAndSleep(csvIndex, tr,
                              [match |-> bestMatch, quality |-> bestMatchQuality],
                              kickOff', goals')
  /\ UNCHANGED << fixedVars, csvIndex, bestMatch, bestMatchQuality, indexFrame,
                  indexListeners, observerVars, reloads, logAtIterStart, frameAtIterStart >>

\* the timer of line 255 fires: csvIndex++ and the next iteration
EndSleepDone ==
  /\ pc = "awaitEndSleep"
  /\ timerPending
  /\ LoopHead(csvIndex + 1, trace \o << Event("delay", csvIndex) >>)
  /\ UNCHANGED << fixedVars, observerVars, reloads >>

\* the operator reloads the page while the loop is suspended (or over) and
\* pastes the script again: lines 32-39 run afresh
Reload ==
  /\ pc \in AwaitPoints \cup {"done", "threw"}
  /\ reloads < MaxReloads
  /\ reloads' = reloads + 1
  /\ textareaValue' = localStorageCsv
  /\ pc' = "boot"
  /\ csvIndex' = 0
  /\ bestMatch' = Null
  /\ bestMatchQuality' = 0
  /\ kickOff' = Null
  /\ goals' = << >>
  /\ indexFrame' = BlankFrame
  /\ matchFrame' = BlankFrame
  /\ indexListeners' = 0
  /\ matchListeners' = 0
  /\ timerPending' = FALSE
  /\ observing' = FALSE
  /\ children' = {}
  /\ trace' = << >>
  /\ resolved' = 0
  /\ logAtIterStart' = localStorageCsv
  /\ frameAtIterStart' = BlankFrame
  /\ UNCHANGED << fixedVars, localStorageCsv, processed >>

Next ==
  \/ Boot
  \/ IndexLoaded
  \/ IndexSleepDone
  \/ \E added \in SUBSET Nodes, removed \in SUBSET Nodes : Mutate(added, removed)
  \/ DetailSleepDone
  \/ DetailLoaded
  \/ EndSleepDone
  \/ Reload

Spec == Init /\ [][Next]_vars

\* the same program run on a fixture list that may hold a very long team name
LongInit ==
  /\ csv \in SeqsUpTo(LongPool, MaxFixtures)
  /\ listing \in Listings
  /\ FreshPage

LongSpec == LongInit /\ [][Next]_vars

(***************************************************************************)
(* writeCSV on its own: one call with any values                            *)
(***************************************************************************)
Alphabet == {"a", ",", "\"", "\n"}

RECURSIVE TextsUpTo(_)
\* the texts over Alphabet of length at most n
TextsUpTo(n) ==
  IF n = 0 THEN { "" }
  ELSE LET shorter == TextsUpTo(n - 1)
       IN shorter \cup { t \o c : t \in shorter, c \in Alphabet }

\* values of every kind writeCSV tells apart
WriterValues ==
  { Null, Undefined, Num(0), Num(42), NaN, Dec(1500), Bool(TRUE), Bool(FALSE),
    Date("2018-01-01T15:00:00.000Z") }
    \cup { Str(t) : t \in TextsUpTo(MaxTextLen) }

RECURSIVE ListsUpTo(_, _)
\* the sequences over S of length at most n
ListsUpTo(S, n) ==
  IF n = 0 THEN { << >> }
  ELSE LET shorter == ListsUpTo(S, n - 1)
       IN shorter \cup { Append(l, x) : l \in shorter, x \in S }

\* the values that stand next to the value under study in a call
Neighbours == { Null, Num(42), Bool(TRUE), Str("a,\"") }

\* the argument lists of a call: any value, at any position among neighbours
ArgLists ==
  { << >> } \cup
  UNION { { [l EXCEPT ![k] = v] : k \in DOMAIN l, v \in WriterValues } :
            l \in ListsUpTo(Neighbours, MaxArgs) }

\* what line 39 can restore into the textarea before the call
RestoredLogs == { "", "\"E0\",2,1\n" }

\* the page is set up (lines 32-39) and a call writeCSV(...args) is about to
\* be made
WriterInit ==
  /\ args \in ArgLists
  /\ localStorageCsv \in RestoredLogs
  /\ textareaValue = localStorageCsv
  /\ logAtIterStart = textareaValue
  /\ pc = "call"
  /\ csv = << >>
  /\ listing = << >>
  /\ csvIndex = 0
  /\ bestMatch = Null
  /\ bestMatchQuality = 0
  /\ kickOff = Null
  /\ goals = << >>
  /\ indexFrame = BlankFrame
  /\ matchFrame = BlankFrame
  /\ indexListeners = 0
  /\ matchListeners = 0
  /\ timerPending = FALSE
  /\ observing = FALSE
  /\ children = {}
  /\ reloads = 0
  /\ trace = << >>
  /\ resolved = 0
  /\ processed = 0
  /\ frameAtIterStart = BlankFrame
  /\ SimpleIdle

\* writeCSV(...args), lines 70-84
CallWriteCSV ==
  /\ pc = "call"
  /\ textareaValue' = WriteCSV(textareaValue, args)
  /\ localStorageCsv' = textareaValue'
  /\ pc' = "returned"
  /\ UNCHANGED << fixedVars, csvIndex, matchVars, indexFrame, indexListeners, detailVars,
                  timerPending, observerVars, reloads, trace, processed, logAtIterStart,
                  frameAtIterStart >>

\* write(...args) of scraping-example-v2.js, lines 30-46
CallWrite ==
  /\ pc = "call"
  /\ textareaValue' = textareaValue \o SimpleRowText(args)
  /\ pc' = "wrote"
  /\ UNCHANGED << fixedVars, localStorageCsv, csvIndex, matchVars, indexFrame, indexListeners,
                  detailVars, timerPending, observerVars, reloads, trace, processed,
                  logAtIterStart, frameAtIterStart >>

WriterNext == CallWriteCSV \/ CallWrite

WriterSpec == WriterInit /\ [][WriterNext]_vars

(***************************************************************************)
(* scraping-example-v2.js: start, process, the click timer and abort        *)
(***************************************************************************)
\* a petition item: the data-count attribute of its .count element (null
\* when the attribute is missing) and the text of its title link
Item(count, name) == [count |-> count, name |-> name]

ItemPool == { Item(Str("12"), "Ban x"), Item(Null, "Say \"no\", now") }

\* a page is the list of its petition items; page k of a site has a next link
\* when it is not the last one
Pages == ListsUpTo(ItemPool, MaxItems)

Sites == ListsUpTo(Pages, MaxPages) \ { << >> }

HasNext(k) == k < Len(site)

\* new Date() at the time process runs
Clock == Date("2018-01-01T15:00:00.000Z")

RECURSIVE PageRows(_)
\* what the forEach of lines 63-68 writes for the items of a page
PageRows(items) ==
  IF Len(items) = 0 THEN ""
  ELSE SimpleRowText(<< ParseInt(Head(items).count), Str(Head(items).name), Clock >>)
         \o PageRows(Tail(items))

\* the state of the rest of the model while the simple example runs
MainIdle ==
  /\ args = << >>
  /\ localStorageCsv = ""
  /\ logAtIterStart = ""
  /\ csv = << >>
  /\ listing = << >>
  /\ csvIndex = 0
  /\ bestMatch = Null
  /\ bestMatchQuality = 0
  /\ kickOff = Null
  /\ goals = << >>
  /\ indexFrame = BlankFrame
  /\ matchFrame = BlankFrame
  /\ indexListeners = 0
  /\ matchListeners = 0
  /\ timerPending = FALSE
  /\ observing = FALSE
  /\ children = {}
  /\ reloads = 0
  /\ resolved = 0
  /\ processed = 0
  /\ frameAtIterStart = BlankFrame

\* what the simple example never touches
mainOnlyVars ==
  << inputVars, args, localStorageCsv, pc, csvIndex, matchVars, indexFrame, indexListeners,
     detailVars, timerPending, observerVars, reloads, processed, logAtIterStart,
     frameAtIterStart >>

\* the state after start() (lines 15-28, 81): the listener is registered and
\* the first page is on its way into the iframe
SimpleInit ==
  /\ site \in Sites
  /\ iframe = [page |-> 0, pending |-> 1]
  /\ processListener = TRUE
  /\ clickTimeout = Undefined
  /\ pendingTimers = {}
  /\ aborts = 0
  /\ textareaValue = ""
  /\ trace = << >>
  /\ pc = "simple"
  /\ MainIdle

\* process() for page k, lines 55-73
Process(k) ==
  /\ textareaValue' = textareaValue \o PageRows(site[k])
  /\ trace' = trace \o << Event("process", k) >>
                    \o [j \in 1..Len(site[k]) |-> Event("write", k)]
                    \o << Event(IF HasNext(k) THEN "schedule" ELSE "finished", k) >>
  /\ IF HasNext(k)
     THEN /\ clickTimeout' = Num(k)
          /\ pendingTimers' = pendingTimers \cup {k}
     ELSE UNCHANGED << clickTimeout, pendingTimers >>

\* 'load' fires on the iframe: the listener, if still registered, runs process
PageLoaded ==
  /\ pc = "simple"
  /\ iframe.pending # 0
  /\ iframe' = [page |-> iframe.pending, pending |-> 0]
  /\ IF processListener
     THEN Process(iframe.pending)
     ELSE UNCHANGED << textareaValue, trace, clickTimeout, pendingTimers >>
  /\ UNCHANGED << mainOnlyVars, site, processListener, aborts >>

\* mutant of ClickFires: the timer repeats (setInterval for setTimeout)
ClickFires_Repeating(t) ==
  /\ pc = "simple"
  /\ t \in pendingTimers
  /\ iframe.pending = 0
  /\ iframe' = [iframe EXCEPT !.pending = t + 1]
  /\ trace' = trace \o << Event("click", t) >>
  /\ UNCHANGED << mainOnlyVars, site, processListener, clickTimeout, aborts, textareaValue,
                  pendingTimers >>

\* the timer of line 71 fires: nextLink.click() starts the navigation to the
\* next page
ClickFires(t) ==
  /\ pc = "simple"
  /\ t \in pendingTimers
  /\ pendingTimers' = pendingTimers \ {t}
  /\ iframe' = [iframe EXCEPT !.pending = t + 1]
  /\ trace' = trace \o << Event("click", t) >>
  /\ UNCHANGED << mainOnlyVars, site, processListener, clickTimeout, aborts, textareaValue >>

\* the operator calls abort() (lines 48-53).  clickTimeout is a global that
\* exists only once process has assigned it: before that, reading it in line
\* 51 is a ReferenceError and line 52 is not reached
Abort ==
  /\ pc = "simple"
  /\ aborts < MaxAborts
  /\ aborts' = aborts + 1
  /\ IF clickTimeout = Undefined
     THEN /\ trace' = trace \o << Event("abortThrew", iframe.page) >>
          /\ UNCHANGED << pendingTimers, processListener >>
     ELSE /\ pendingTimers' = pendingTimers \ {clickTimeout.v}
          /\ processListener' = FALSE
          /\ trace' = trace \o << Event("abort", iframe.page) >>
  /\ UNCHANGED << mainOnlyVars, site, iframe, clickTimeout, textareaValue >>

SimpleNext ==
  \/ PageLoaded
  \/ \E t \in 1..MaxPages : ClickFires(t)
  \/ Abort

SimpleSpec == SimpleInit /\ [][SimpleNext]_vars

(***************************************************************************)
(* What an uninterrupted run writes, fixture by fixture                     *)
(***************************************************************************)
\* the matcher's answer for fixture f on the page as the site shows it
AnswerFor(f) == BestMatch(f, getMatches(listing))

\* fixture f makes the loop throw before its row is written
FixtureThrows(f) ==
  \/ f.matchdate.t = "undefined"
  \/ /\ AnswerFor(f).match # Null
     /\ ExtractThrows(DetailOf(AnswerFor(f).match.URL))

\* the row of fixture f
FixtureRow(f) ==
  LET best == AnswerFor(f)
      page == DetailOf(best.match.URL)
  IN IF best.match = Null
     THEN RowText(RowValues(f, best, Null, << >>))
     ELSE RowText(RowValues(f, best, Str(Trim(page.ko.v)), ExtractGoals(page)))

RECURSIVE RowsLog(_)
\* the rows of the first n fixtures, in input order
RowsLog(n) == IF n = 0 THEN "" ELSE RowsLog(n - 1) \o FixtureRow(csv[n])

\* the number of leading fixtures an uninterrupted run gets through
Completed == CHOOSE n \in 0..Len(csv) :
               /\ \A k \in 1..n : ~FixtureThrows(csv[k])
               /\ n < Len(csv) => FixtureThrows(csv[n + 1])

\* the log an uninterrupted run over the whole list ends with
UninterruptedLog == RowsLog(Completed)

RunOver == pc \in {"done", "threw"}

(***************************************************************************)
(* Claims                                                                   *)
(***************************************************************************)
\* C1: resume idempotence.  Whenever the script (re)starts after n rows were
\* written, the resume offset computed from the restored log is n, and a run
\* that is over, however often it was interrupted, leaves the log an
\* uninterrupted run over the whole list leaves.
C1_ResumeIdempotent ==
  /\ pc = "boot" => ResumeOffset(textareaValue) = processed
  /\ RunOver => textareaValue = UninterruptedLog

\* C2: in every state the newline count of the log equals the number of
\* fixtures fully processed, and the log is the rows of exactly those
\* fixtures in input order (so no written row was changed or removed),
\* whatever text the page parser returned.
C2_RowCountIsProcessed ==
  /\ ResumeOffset(textareaValue) = processed
  /\ processed <= Len(csv)
  /\ textareaValue = RowsLog(processed)

\* the positions of the trace that hold event e of fixture i
EventsOf(e, i) == { k \in DOMAIN trace : trace[k] = Event(e, i) }

InIteration == pc \in AwaitPoints \ {"boot"}

\* C3: an iteration that runs to completion has appended exactly one row, the
\* row of its fixture, matched or not; until that write the log is as it was
\* when the iteration began.
C3_OneRowPerIteration ==
  /\ pc \in {"awaitIndexLoad", "awaitIndexSleep", "awaitUK", "awaitDetailSleep",
             "awaitDetailLoad"}
       => /\ textareaValue = logAtIterStart
          /\ EventsOf("write", csvIndex) = {}
  /\ pc = "awaitEndSleep"
       => /\ textareaValue = logAtIterStart \o
               RowText(RowValues(csv[csvIndex + 1],
                                 [match |-> bestMatch, quality |-> bestMatchQuality],
                                 kickOff, goals))
          /\ Cardinality(EventsOf("write", csvIndex)) = 1
          /\ Len(textareaValue) > Len(logAtIterStart)

\* a second fixture without a match has had its row written
C3_Witness ==
  /\ pc = "awaitEndSleep"
  /\ csvIndex = 1
  /\ bestMatch = Null
  /\ EventsOf("write", 0) # {}

\* the loop is past the matching step of fixture csvIndex
AfterMatching == pc \in {"awaitDetailSleep", "awaitDetailLoad", "awaitEndSleep"}

\* the fixture the loop is working on
Current == csv[csvIndex + 1]

\* the fixture the current run began with
RunStart == trace[1].i

IndexNavs(i) == Cardinality(EventsOf("navIndex", i))

\* C4: index-page reuse.  A navigation of the index iframe is issued only when
\* its location differs from the fixture's date URL; a fixture that follows, in
\* the same run, a fixture with the same date URL causes no navigation, every
\* other fixture exactly one.
C4_IndexReuse ==
  /\ pc = "awaitIndexLoad" => indexFrame.href # DateURL(Current)
  /\ trace # << >> =>
       \A i \in RunStart..csvIndex :
         (i < csvIndex \/ InIteration) =>
           IndexNavs(i) = IF i > RunStart /\ DateURL(csv[i]) = DateURL(csv[i + 1])
                          THEN 0 ELSE 1

\* two consecutive fixtures of one date were both worked on in this run
C4_Witness ==
  /\ trace # << >>
  /\ \E i \in 1..(Len(csv) - 1) :
       /\ i > RunStart
       /\ EventsOf("write", i) # {}
       /\ DateURL(csv[i]) = DateURL(csv[i + 1])
       /\ IndexNavs(i - 1) = 1
       /\ IndexNavs(i) = 0

IsNav(ev) == ev.e \in {"navIndex", "navDetail"}

\* C5 as stated: every navigation of a run is immediately preceded by a
\* completed delay, and every written row is followed by one.
C5_DelayBeforeEveryNavigation ==
  /\ \A k \in DOMAIN trace : IsNav(trace[k]) => k > 1 /\ trace[k - 1].e = "delay"
  /\ \A k \in DOMAIN trace : trace[k].e = "write" /\ k < Len(trace) => trace[k + 1].e = "delay"

\* C5 (amended): a completed delay immediately precedes every detail-page
\* navigation; an index-page navigation is the first event of the run or is
\* immediately preceded by the delay that closed the previous fixture; the
\* delay of an index-page navigation comes after its load and before the
\* click; the next event after a written row is the delay of its fixture.
C5_DelaysAroundNavigations ==
  /\ \A k \in DOMAIN trace :
       trace[k].e = "navDetail" => k > 1 /\ trace[k - 1] = Event("delay", trace[k].i)
  /\ \A k \in DOMAIN trace :
       trace[k].e = "navIndex" =>
         \/ k = 1
         \/ /\ k > 2
            /\ trace[k - 1] = Event("delay", trace[k].i - 1)
            /\ trace[k - 2] = Event("write", trace[k].i - 1)
  /\ \A k \in DOMAIN trace :
       trace[k].e = "clickUK" =>
         /\ k > 3
         /\ trace[k - 1] = Event("delay", trace[k].i)
         /\ trace[k - 2] = Event("loaded", trace[k].i)
         /\ trace[k - 3] = Event("navIndex", trace[k].i)
  /\ \A k \in DOMAIN trace :
       trace[k].e = "write" /\ k < Len(trace) => trace[k + 1] = Event("delay", trace[k].i)
  /\ pc \in {"awaitIndexSleep", "awaitDetailSleep", "awaitEndSleep"} => timerPending

\* a run has navigated the index iframe for its second fixture and then the
\* detail iframe
C5_Witness ==
  \E k \in DOMAIN trace :
    /\ k > 1
    /\ trace[k].e = "navIndex"
    /\ \E j \in DOMAIN trace : j > k /\ trace[j].e = "navDetail"

\* no candidate on the page has the score text of fixture f
NoScoreMatch(f) ==
  \A k \in 1..Len(listing) : getMatches(listing)[k].score # ScoreText(f)

\* C6: when no candidate's score text equals "{homegoals} - {awaygoals}" of
\* the fixture, the matcher's result is "no match": bestMatch null, quality 0.
C6_NoScoreNoMatch ==
  (AfterMatching /\ NoScoreMatch(Current)) => (bestMatch = Null /\ bestMatchQuality = 0)

\* the page showed candidates, none with the fixture's score
C6_Witness ==
  /\ AfterMatching
  /\ listing # << >>
  /\ NoScoreMatch(Current)
  /\ bestMatch = Null

\* the candidates of the page that pass the hard filter for fixture f
Survivors(f) == FilterMatches(f, getMatches(listing))

\* similarity of candidate m to fixture f
QualityOf(f, m) ==
  matchQualityWith(Trigrams(JoinedNames(Str(m.home), Str(m.away))),
                   Trigrams(JoinedNames(f.hometeam, f.awayteam)))

\* the similarities of the candidates of the sequence surv to fixture f
QualitiesOf(f, surv) == [k \in 1..Len(surv) |-> QualityOf(f, surv[k])]

\* the first position of a non-empty sequence of numbers that holds its maximum
FirstMax(q) ==
  CHOOSE k \in 1..Len(q) :
    /\ \A j \in 1..Len(q) : q[j] <= q[k]
    /\ \A j \in 1..(k - 1) : q[j] < q[k]

\* C7 as stated: whenever a candidate survives the hard filter, the survivor
\* with the highest similarity is selected, the first one of several.
C7_SelectsHighest ==
  AfterMatching =>
    \E surv \in { Survivors(Current) } :
      \E q \in { QualitiesOf(Current, surv) } :
        surv # << >> =>
          (bestMatch = surv[FirstMax(q)] /\ bestMatchQuality = q[FirstMax(q)])

\* C7 (amended): when some survivor of the hard filter has a similarity above
\* 0, the survivor with the highest similarity is selected, the first one of
\* several; when every survivor has similarity 0 (or none survives), no
\* candidate is selected and the quality is 0.
C7_SelectsHighestPositive ==
  AfterMatching =>
    \E surv \in { Survivors(Current) } :
      \E q \in { QualitiesOf(Current, surv) } :
        IF surv # << >> /\ q[FirstMax(q)] > 0
        THEN bestMatch = surv[FirstMax(q)] /\ bestMatchQuality = q[FirstMax(q)]
        ELSE bestMatch = Null /\ bestMatchQuality = 0

\* two survivors share the highest similarity and the earlier one was selected
C7_Witness ==
  /\ AfterMatching
  /\ \E surv \in { Survivors(Current) } :
       \E q \in { QualitiesOf(Current, surv) } :
         \E k, j \in 1..Len(surv) :
           /\ k < j
           /\ k = FirstMax(q)
           /\ q[j] = q[k]
           /\ q[k] > 0
           /\ bestMatch = surv[k]
           /\ bestMatch # surv[j]

\* C8: a selected candidate has the fixture's score text and a division path
\* that starts with the path leagueMap gives for the fixture's division code;
\* a fixture whose code is not in leagueMap gets no match.
C8_MatchPassesHardFilter ==
  (AfterMatching /\ bestMatch # Null) =>
     /\ bestMatch.score = ScoreText(Current)
     /\ ToText(Current.div) \in DOMAIN leagueMap
     /\ StartsWithText(bestMatch.div, leagueMap[ToText(Current.div)])

\* C9: the wait of clickUK resolves once, on a batch that removes the overlay
\* node and on no other batch, and the observer is disconnected at once.
C9_ResolvesOnOverlayRemoval ==
  [][resolved' = resolved + 1 =>
       /\ resolved = 0
       /\ "overlay" \in children
       /\ "overlay" \notin children'
       /\ ~observing']_vars

DetailNavs(i) == Cardinality(EventsOf("navDetail", i))

\* C10: a detail-page navigation is issued for a fixture exactly when the
\* matcher selected a candidate for it; without a match the detail iframe is
\* as it was when the iteration began.
C10_DetailIffMatch ==
  /\ pc \in {"awaitDetailSleep", "awaitDetailLoad"} => bestMatch # Null
  /\ pc = "awaitDetailLoad" => matchFrame.pending = Str(bestMatch.URL)
  /\ pc # "awaitDetailLoad" => matchFrame.pending = Null
  /\ pc = "awaitEndSleep" =>
       IF bestMatch # Null
       THEN DetailNavs(csvIndex) = 1 /\ matchFrame.href = bestMatch.URL
       ELSE DetailNavs(csvIndex) = 0 /\ matchFrame = frameAtIterStart

\* a fixture without a match was finished while the detail iframe still showed
\* the page of an earlier fixture
C10_Witness ==
  /\ pc = "awaitEndSleep"
  /\ bestMatch = Null
  /\ matchFrame.href # AboutBlank
  /\ DetailNavs(csvIndex) = 0

(***************************************************************************)
(* Reading a row back: the usual rules of quoted CSV                         *)
(***************************************************************************)
RECURSIVE Undouble(_, _)
\* the text of s from position i on, with every "" read as one "
Undouble(s, i) ==
  LET p == IndexOf(s, "\"\"", i)
  IN IF p = 0 THEN SubSeq(s, i, Len(s))
     ELSE SubSeq(s, i, p) \o Undouble(s, p + 2)

\* the content of a raw field: a quoted field loses its outer quotes and has
\* its doubled quotes undoubled, an unquoted field is taken as it is
FieldContent(raw) ==
  IF Len(raw) >= 2 /\ CharAt(raw, 1) = "\"" /\ CharAt(raw, Len(raw)) = "\""
  THEN Undouble(SubSeq(raw, 2, Len(raw) - 1), 1)
  ELSE raw

\* the positions of the commas of a line that separate fields: those with an
\* even number of quote characters before them
Separators(line) ==
  LET quotes == { i \in 1..Len(line) : CharAt(line, i) = "\"" }
  IN { i \in 1..Len(line) :
         /\ CharAt(line, i) = ","
         /\ Cardinality({ q \in quotes : q < i }) % 2 = 0 }

\* the k-th smallest element of a set of numbers
Nth(S, k) == CHOOSE i \in S : Cardinality({ j \in S : j < i }) = k - 1

\* the raw fields of a line (without its terminator)
RawFields(line) ==
  LET seps == Separators(line)
      n == Cardinality(seps)
  IN [k \in 1..(n + 1) |->
        SubSeq(line,
               IF k = 1 THEN 1 ELSE Nth(seps, k - 1) + 1,
               IF k = n + 1 THEN Len(line) ELSE Nth(seps, k) - 1)]

\* the field contents of a line
ParseLine(line) ==
  LET raw == RawFields(line)
  IN [k \in 1..Len(raw) |-> FieldContent(raw[k])]

\* the row the current iteration appended, without its terminating newline
LastRow == SubSeq(textareaValue, Len(logAtIterStart) + 1, Len(textareaValue) - 1)

\* C11: the row written for a fixture without a match has an empty kick-off
\* field, an empty goals field, quality 0 and empty matched home and away
\* names, after the six fields of the fixture.
C11_NoMatchRow ==
  (pc = "awaitEndSleep" /\ bestMatch = Null) =>
    \E fields \in { ParseLine(LastRow) } :
      /\ Len(fields) = 11
      /\ fields[7] = ""
      /\ fields[8] = ""
      /\ fields[9] = "0"
      /\ fields[10] = ""
      /\ fields[11] = ""
      /\ SubSeq(fields, 1, 4) = [k \in 1..4 |-> ToText(RowValues(Current, NoMatch, Null, << >>)[k])]

\* the fixture of the scenario met a page whose only candidate has the score
\* "1 - 1", after an earlier fixture was matched and its detail page read
C11_Witness ==
  /\ pc = "awaitEndSleep"
  /\ bestMatch = Null
  /\ Current = FixBath
  /\ csvIndex = 1
  /\ kickOff = Null
  /\ EventsOf("navDetail", 0) # {}

\* goal events written as triples whose parts are joined by sep, the triples
\* by " / "
Triples(events, sep) ==
  Join([k \in 1..Len(events) |->
          ToText(events[k].minute) \o sep \o events[k].team \o sep \o events[k].score],
       " / ")

\* the row of a matched fixture has been written
MatchedRowWritten == pc = "awaitEndSleep" /\ bestMatch # Null

\* C12 as stated: the goal field of a matched fixture's row is the goal events
\* in page order as "minute:team:score" triples joined by " / "; the row has a
\* quality above 0, the candidate's names and the kick-off text.
C12_GoalText ==
  MatchedRowWritten =>
    \E fields \in { ParseLine(LastRow) } :
      /\ Len(fields) = 11
      /\ fields[7] = kickOff.v
      /\ fields[8] = Triples(goals, ":")
      /\ bestMatchQuality > 0
      /\ fields[9] = DecStr(ToFixed3(bestMatchQuality))
      /\ fields[10] = bestMatch.home
      /\ fields[11] = bestMatch.away

\* C12 (amended): the triples are written "minute : team : score", with a
\* space on either side of each colon; the rest as stated, the quality being
\* the selected similarity (above 0) rounded to three decimals and the
\* kick-off text the trimmed text of the page's kick-off element.
C12_GoalTextSpaced ==
  MatchedRowWritten =>
    \E fields \in { ParseLine(LastRow) } :
      /\ Len(fields) = 11
      /\ fields[7] = kickOff.v
      /\ kickOff.v = Trim(DetailOf(bestMatch.URL).ko.v)
      /\ fields[8] = Triples(goals, " : ")
      /\ bestMatchQuality > 0
      /\ fields[9] = DecStr(ToFixed3(bestMatchQuality))
      /\ fields[10] = bestMatch.home
      /\ fields[11] = bestMatch.away

\* the scenario: fixture Town FC v City FC matched with Town F.C. v City F.C.,
\* whose detail page has kick-off 15:00 and three goals
C12_Witness ==
  /\ MatchedRowWritten
  /\ Current = FixTown
  /\ bestMatch.URL = RowTown.href
  /\ Len(goals) = 3
  /\ ParseLine(LastRow)[8] = "10 : home : 1-0 / 55 : away : 1-1 / 80 : home : 2-1"
  /\ ParseLine(LastRow)[7] = "15:00"

\* the text a call appended to the textarea
Appended == SubSeq(textareaValue, Len(logAtIterStart) + 1, Len(textareaValue))

\* the appended text without its last character
AppendedLine == SubSeq(Appended, 1, Len(Appended) - 1)

IsAbsent(v) == v.t \in {"null", "undefined"}
IsNumber(v) == v.t \in {"number", "NaN", "decimal"}
IsBoolean(v) == v.t = "boolean"

\* raw is text wrapped in double quotes, every quote of text doubled
QuotedAs(raw, text) ==
  /\ Len(raw) >= 2
  /\ CharAt(raw, 1) = "\""
  /\ CharAt(raw, Len(raw)) = "\""
  /\ CountChar(raw, "\"") = 2 + 2 * CountChar(text, "\"")
  /\ Len(raw) = 2 + Len(text) + CountChar(text, "\"")
  /\ FieldContent(raw) = text

RECURSIVE NewlinesIn(_)
\* the newline characters inside the texts of a list of values
NewlinesIn(values) ==
  IF Len(values) = 0 THEN 0
  ELSE (IF Head(values).t = "string" THEN CountChar(Head(values).v, "\n") ELSE 0)
         + NewlinesIn(Tail(values))

\* the appended text is one row: the fields of the values joined by commas,
\* then one newline and nothing else
OneRowOf(values) ==
  /\ Len(textareaValue) > Len(logAtIterStart)
  /\ SubSeq(textareaValue, 1, Len(logAtIterStart)) = logAtIterStart
  /\ CharAt(Appended, Len(Appended)) = "\n"
  /\ CountChar(Appended, "\n") = 1 + NewlinesIn(values)
  /\ IF Len(values) = 0 THEN Appended = "\n"
     ELSE Len(RawFields(AppendedLine)) = Len(values)

\* C13 as stated: null or undefined becomes an empty field, a number its
\* decimal text unquoted, a boolean "1" or "0", any other value its text in
\* double quotes with every internal quote doubled; fields are joined by
\* commas and the row ends with exactly one newline.
C13_FieldsByKind ==
  pc = "returned" =>
    /\ OneRowOf(args)
    /\ \A k \in 1..Len(args) :
         \E raw \in { RawFields(AppendedLine)[k] } :
           IF IsAbsent(args[k]) THEN raw = ""
           ELSE IF IsNumber(args[k]) THEN raw = ToText(args[k])
           ELSE IF IsBoolean(args[k]) THEN raw = (IF args[k].v THEN "1" ELSE "0")
           ELSE /\ Len(raw) >= 2
                /\ CharAt(raw, 1) = "\""
                /\ CharAt(raw, Len(raw)) = "\""
                /\ args[k].t = "string" => QuotedAs(raw, args[k].v)

\* the text written for a Date: toISOString() with the T replaced by a space
\* and without the Z
Timestamp(iso) == SubSeq(iso, 1, 10) \o " " \o SubSeq(iso, 12, 23)

\* C13 (amended): as stated, except that a Date is written unquoted as its UTC
\* time "YYYY-MM-DD HH:MM:SS.mmm"; every other value that is not absent, a
\* number or a boolean is written as its text in double quotes with every
\* internal quote doubled.
C13_FieldsByKindAndDate ==
  pc = "returned" =>
    /\ OneRowOf(args)
    /\ \A k \in 1..Len(args) :
         \E raw \in { RawFields(AppendedLine)[k] } :
           IF IsAbsent(args[k]) THEN raw = ""
           ELSE IF IsNumber(args[k]) THEN raw = ToText(args[k])
           ELSE IF IsBoolean(args[k]) THEN raw = (IF args[k].v THEN "1" ELSE "0")
           ELSE IF args[k].t = "date" THEN raw = Timestamp(args[k].iso)
           ELSE QuotedAs(raw, args[k].v)

\* a row with a null and a text that holds a quote and a comma was appended to
\* a restored log
C13_Witness ==
  /\ pc = "returned"
  /\ logAtIterStart # ""
  /\ args = << Null, Str("\",") >>
  /\ Appended = ",\"\"\",\"\n"

\* the line writeCSV writes for values, without its terminator
LineOf(values) == SubSeq(RowText(values), 1, Len(RowText(values)) - 1)

\* C14: serialization round trip.  A newline-free text, commas and double
\* quotes included, written as field k of a row is recovered exactly when the
\* row is read back with the usual quote-doubling rules, and the row has the
\* same number of fields, the other ones with the same boundaries, as the
\* row that has a plain text at position k.
C14_RoundTrip ==
  pc = "returned" =>
    \A k \in 1..Len(args) :
      (args[k].t = "string" /\ CountChar(args[k].v, "\n") = 0) =>
        \E raw \in { RawFields(AppendedLine) } :
          \E plain \in { RawFields(LineOf([args EXCEPT ![k] = Str("x")])) } :
            /\ Len(raw) = Len(args)
            /\ FieldContent(raw[k]) = args[k].v
            /\ Len(plain) = Len(raw)
            /\ \A j \in 1..Len(raw) : j # k => raw[j] = plain[j]

\* a text that holds a quote and a comma was written before a number and read
\* back
C14_Witness ==
  /\ pc = "returned"
  /\ Len(args) = 2
  /\ args[1] = Str("\",")
  /\ args[2] = Num(42)
  /\ ParseLine(AppendedLine) = << "\",", "42" >>

\* the await points of an iteration that come before its writeCSV call
BeforeWrite ==
  {"awaitIndexLoad", "awaitIndexSleep", "awaitUK", "awaitDetailSleep", "awaitDetailLoad"}

\* the stored log is a sequence of whole rows
WholeRows ==
  /\ localStorageCsv = "" \/ CharAt(localStorageCsv, Len(localStorageCsv)) = "\n"
  /\ localStorageCsv \in { RowsLog(n) : n \in 0..Completed }

\* C15: the stored log only ever holds whole rows, and an abort at a
\* suspension point of fixture i before its row is written leaves the stored
\* log as it was when fixture i began, so that the next run computes the
\* resume offset i and takes up fixture i again.
C15_AtomicCommit ==
  /\ [](pc \in AwaitPoints \cup {"done", "threw"} => WholeRows)
  /\ [][(reloads' = reloads + 1 /\ pc \in BeforeWrite) =>
          /\ localStorageCsv' = logAtIterStart
          /\ textareaValue' = logAtIterStart
          /\ ResumeOffset(textareaValue') = csvIndex]_vars

\* the waits that are pending: 'load' listeners on the two iframes, the
\* mutation observer and the sleep timer
PendingWaits ==
  indexListeners + matchListeners + (IF observing THEN 1 ELSE 0) + (IF timerPending THEN 1 ELSE 0)

\* C16: at most one wait is pending at any time, the one the loop is suspended
\* at; the listener or observer of a wait that has resolved is no longer
\* registered, so none is left over from an earlier wait or iteration.
C16_OneWaitPending ==
  /\ PendingWaits <= 1
  /\ pc = "awaitIndexLoad" => indexListeners = 1 /\ indexFrame.pending # Null
  /\ pc = "awaitDetailLoad" => matchListeners = 1 /\ matchFrame.pending # Null
  /\ pc = "awaitUK" => observing
  /\ pc \in {"awaitIndexSleep", "awaitDetailSleep", "awaitEndSleep"} => timerPending
  /\ pc \in {"boot", "done", "threw"} => PendingWaits = 0
  /\ ~(indexFrame.pending # Null /\ matchFrame.pending # Null)

\* the second fixture of a run waits for its own index page, after every kind
\* of wait has resolved for the first one
C16_Witness ==
  /\ pc = "awaitIndexLoad"
  /\ csvIndex = 1
  /\ indexListeners = 1
  /\ EventsOf("loaded", 0) # {}
  /\ EventsOf("refreshed", 0) # {}
  /\ EventsOf("navDetail", 0) # {}
  /\ EventsOf("delay", 0) # {}

\* the waits that end on a signal of the site
SignalWaits == {"awaitIndexLoad", "awaitDetailLoad", "awaitUK"}

\* a step during which the signal the loop waits for does not arrive (and the
\* page is not reloaded)
NoSignalStep ==
  /\ reloads' = reloads
  /\ \/ pc = "awaitIndexLoad" /\ indexFrame'.pending = indexFrame.pending
     \/ pc = "awaitDetailLoad" /\ matchFrame'.pending = matchFrame.pending
     \/ pc = "awaitUK" /\ children \subseteq children'

\* C20: no timeout.  While the loop waits for a load signal or for the removal
\* signal no timer is pending, and a step that does not bring the signal
\* leaves the loop at the same wait: no row is written, no navigation issued,
\* no error reached.
C20_NoTimeout ==
  /\ [](pc \in SignalWaits => ~timerPending)
  /\ [][NoSignalStep =>
          /\ pc' = pc
          /\ pc' # "threw"
          /\ UNCHANGED << logVars, processed, trace, csvIndex, indexFrame, matchFrame,
                          indexListeners, matchListeners, observing >>]_vars

\* the page has inserted the overlay and not removed it: the loop still waits
C20_Witness ==
  /\ pc = "awaitUK"
  /\ observing
  /\ children = {"content", "overlay"}
  /\ resolved = 0
  /\ trace[Len(trace)].e = "clickUK"

\* C18: write() of the simple example writes null and undefined as an empty
\* field, a number unquoted, a boolean as 1 or 0 and any other text in double
\* quotes with the quotes inside it doubled.
C18_SimpleWriteByKind ==
  pc = "wrote" =>
    /\ OneRowOf(args)
    /\ \A k \in 1..Len(args) :
         \E raw \in { RawFields(AppendedLine)[k] } :
           IF IsAbsent(args[k]) THEN raw = ""
           ELSE IF IsNumber(args[k]) THEN raw = ToText(args[k])
           ELSE IF IsBoolean(args[k]) THEN raw = (IF args[k].v THEN "1" ELSE "0")
           ELSE args[k].t = "string" => QuotedAs(raw, args[k].v)

\* the events that are actions of the scraper
IsScraping(ev) == ev.e \in {"process", "write", "schedule", "click"}

\* C17: once abort() has been called, at whatever moment after start(), no
\* further page is processed, no further row written and no further click
\* issued.
C17_AbortStopsAll ==
  \A k \in DOMAIN trace :
    trace[k].e \in {"abort", "abortThrew"} =>
      \A j \in DOMAIN trace : j > k => ~IsScraping(trace[j])

\* the number of events e of page k in the trace
Count(e, k) == Cardinality(EventsOf(e, k))

RECURSIVE RowsUpTo(_)
\* the rows of the first n pages, page by page
RowsUpTo(n) == IF n = 0 THEN "" ELSE RowsUpTo(n - 1) \o PageRows(site[n])

IndexSteps(i) ==
  << Event("navIndex", i), Event("loaded", i), Event("delay", i), Event("clickUK", i),
     Event("refreshed", i) >>

\* the trace holds seq from position k on
HoldsAt(k, seq) ==
  /\ k + Len(seq) - 1 <= Len(trace)
  /\ \A j \in 1..Len(seq) : trace[k + j - 1] = seq[j]

\* the candidates of fixture i have been extracted in this run
Extracted(i) == i < csvIndex \/ (i = csvIndex /\ AfterMatching)

\* C21: an index-page navigation is followed, in this order and before the
\* candidates are extracted, by its load, the delay, the click that reveals
\* the full listing and the resolved content-refresh wait; for a fixture that
\* reuses the index page none of these steps happens and the candidates are
\* taken from the page as it stands.
C21_IndexStepsInOrder ==
  /\ pc = "awaitIndexLoad" => trace[Len(trace)] = Event("navIndex", csvIndex)
  /\ pc = "awaitIndexSleep" => HoldsAt(Len(trace) - 1, SubSeq(IndexSteps(csvIndex), 1, 2))
  /\ pc = "awaitUK" => HoldsAt(Len(trace) - 3, SubSeq(IndexSteps(csvIndex), 1, 4))
  /\ trace # << >> =>
       \A i \in RunStart..csvIndex :
         Extracted(i) =>
           IF IndexNavs(i) > 0
           THEN /\ IndexNavs(i) = 1
                /\ \A k \in EventsOf("navIndex", i) : HoldsAt(k, IndexSteps(i))
                /\ Cardinality(EventsOf("clickUK", i)) = 1
                /\ Cardinality(EventsOf("refreshed", i)) = 1
                /\ \A k \in EventsOf("write", i) \cup EventsOf("navDetail", i) :
                     \A j \in EventsOf("refreshed", i) : j < k
           ELSE /\ EventsOf("clickUK", i) = {}
                /\ EventsOf("refreshed", i) = {}
                /\ \A k \in EventsOf("loaded", i) : k > 1 /\ trace[k - 1] = Event("navDetail", i)
                /\ \A k \in EventsOf("delay", i) :
                     \/ k < Len(trace) /\ trace[k + 1] = Event("navDetail", i)
                     \/ k > 1 /\ trace[k - 1] = Event("write", i)
                /\ i = csvIndex => indexFrame.href = DateURL(csv[i + 1])
  /\ AfterMatching =>
       /\ indexFrame = [href |-> DateURL(Current), pending |-> Null]
       /\ bestMatch = AnswerFor(Current).match

\* the first fixture of a run went through all steps of an index navigation
\* and the second one, of the same date, took its candidates from that page
C21_Witness ==
  /\ trace # << >>
  /\ csvIndex = RunStart + 1
  /\ AfterMatching
  /\ HoldsAt(1, IndexSteps(RunStart))
  /\ IndexNavs(csvIndex) = 0
  /\ EventsOf("clickUK", csvIndex) = {}

\* the goal events of the rows of one layout, in page order
EventsIn(rows) == [k \in 1..Len(rows) |-> GoalOf(rows[k])]

\* C22: the goals of a matched fixture are the events of the first layout, in
\* page order, when that layout has at least one, and the events of the second
\* layout exactly when the first has none; when both have none the goal list
\* is empty and the row is written all the same.
C22_LayoutFallback ==
  MatchedRowWritten =>
    \E page \in { DetailOf(bestMatch.URL) } :
      /\ Len(page.events) > 0 => goals = EventsIn(page.events)
      /\ Len(page.events) = 0 => goals = EventsIn(page.scorers)
      /\ (Len(page.events) = 0 /\ Len(page.scorers) = 0) =>
           /\ goals = << >>
           /\ ParseLine(LastRow)[8] = ""
      /\ Cardinality(EventsOf("write", csvIndex)) = 1
      /\ ParseLine(LastRow)[8] = Triples(goals, " : ")

\* a fixture whose detail page has no goal in either layout was written after
\* one whose page has goals in both layouts
C22_Witness ==
  /\ MatchedRowWritten
  /\ csvIndex = 1
  /\ bestMatch.URL = RowConf.href
  /\ goals = << >>
  /\ EventsOf("write", 1) # {}
  /\ IndexOf(textareaValue, "10 : home : 1-0 / 55 : away : 1-1 / 80 : home : 2-1", 1) > 0
  /\ IndexOf(textareaValue, "0 - 1", 1) = 0

\* the resume offset the current run started from
StartOffset == IF trace = << >> THEN csvIndex ELSE RunStart

\* the rows written in the current run
WritesInRun == Cardinality({ k \in DOMAIN trace : trace[k].e = "write" })

\* C23: termination.  When every load signal, every removal signal and every
\* timer arrives, the loop ends by leaving the for statement, never by an
\* error, and then the log holds one row per fixture: the resume offset plus
\* the rows written in this run is the number of fixtures.  (Every state of
\* this specification is reached by signals that did arrive, so the loop must
\* never be found ended by an error, and must be complete when it is over.)
C23_ExitsWithAllRows ==
  /\ pc # "threw"
  /\ pc = "done" =>
       /\ StartOffset + WritesInRun = Len(csv)
       /\ processed = Len(csv)
       /\ ResumeOffset(textareaValue) = Len(csv)

\* every survivor of the hard filter has similarity 0 to the current fixture
\* (also when there is no survivor)
AllZero ==
  \A k \in 1..Len(Survivors(Current)) : QualityOf(Current, Survivors(Current)[k]) = 0

\* what the matching step left, in every state after it: no candidate exactly
\* when the quality is 0, and with survivors of similarity 0 only, no
\* candidate, no wait for a detail page and no detail navigation
SelectedIffPositive ==
  AfterMatching =>
    /\ bestMatch = Null <=> bestMatchQuality = 0
    /\ AllZero => /\ bestMatch = Null
                  /\ pc = "awaitEndSleep"
                  /\ DetailNavs(csvIndex) = 0

\* C24 as stated: after the matching step the candidate is absent exactly when
\* the quality is 0 (survivors of similarity 0 only give "no match" and no
\* detail page), and in the row just written the matched names are absent
\* exactly when the written quality is 0, so that no row has matched names
\* and a written quality of 0.
C24_AbsentIffZero ==
  /\ SelectedIffPositive
  /\ pc = "awaitEndSleep" =>
       \E raw \in { RawFields(LastRow) } :
         /\ Len(raw) = 11
         /\ raw[10] = "" <=> raw[9] = "0"
         /\ raw[11] = "" <=> raw[9] = "0"

\* C24 (amended): after the matching step the candidate is absent exactly when
\* the quality is 0 (survivors of similarity 0 only give "no match" and no
\* detail page); the row just written has no matched names exactly when no
\* candidate was selected, its quality is the similarity rounded to three
\* decimals, so a row without names has quality 0, and a row with names has
\* a written quality of 0 only for a similarity above 0 and below 0.0005.
C24_AbsentIffNotSelected ==
  /\ SelectedIffPositive
  /\ pc = "awaitEndSleep" =>
       \E raw \in { RawFields(LastRow) } :
         /\ Len(raw) = 11
         /\ raw[10] = "" <=> bestMatch = Null
         /\ raw[11] = "" <=> bestMatch = Null
         /\ raw[9] = DecStr(ToFixed3(bestMatchQuality))
         /\ raw[10] = "" => raw[9] = "0"
         /\ (raw[10] # "" /\ raw[9] = "0") => bestMatchQuality \in 1..4

\* the fixture with the very long home team was matched to the one candidate
\* that shares a trigram with it, its detail page was read, and its row has
\* the candidate's names and the quality 0
C24_Witness ==
  /\ pc = "awaitEndSleep"
  /\ Current = FixLong
  /\ bestMatch # Null
  /\ bestMatchQuality > 0
  /\ DetailNavs(csvIndex) = 1
  /\ RawFields(LastRow)[9] = "0"
  /\ RawFields(LastRow)[10] = "\"Town F.C.\""

\* the step is one call of writeCSV: the row of the fixture the loop is at
\* was appended to the textarea and the whole text saved
WriteStep ==
  /\ textareaValue' =
       WriteCSV(textareaValue,
                RowValues(csv[csvIndex' + 1],
                          [match |-> bestMatch', quality |-> bestMatchQuality'],
                          kickOff', goals'))
  /\ localStorageCsv' = textareaValue'

\* C25: wherever the main loop is suspended, localStorage 'csv' and the
\* textarea hold the same text, so at the start of a run the resume offset
\* counted in the textarea is the one the stored text gives; and a step that
\* changes either of the two is a call of writeCSV.
C25_MirrorAndStoreAgree ==
  /\ [] (pc \in AwaitPoints => localStorageCsv = textareaValue)
  /\ [] (pc = "boot" => ResumeOffset(textareaValue) = ResumeOffset(localStorageCsv))
  /\ [][ (textareaValue' # textareaValue \/ localStorageCsv' # localStorageCsv)
          => WriteStep ]_vars

\* after the page was reopened with rows in the log, a further row was
\* written and the loop is suspended in its closing sleep
C25_Witness ==
  /\ pc = "awaitEndSleep"
  /\ reloads = 1
  /\ logAtIterStart # ""
  /\ textareaValue # logAtIterStart
  /\ localStorageCsv = textareaValue

====
